---- MODULE Spec2Model ----
(***************************************************************************)
(* Model of backend/app.py of space-debris-tracker: the SpaceTrackAPI      *)
(* session (authenticate, get_debris_data), the /api/debris handler        *)
(* get_debris with its per-record enrichment loop, and the three           *)
(* derivation functions calculate_risk_level, classify_orbit and           *)
(* calculate_altitude.                                                     *)
(*                                                                         *)
(* Units.  Finite numbers are integers in a fixed unit per field:          *)
(*   MEAN_MOTION   tenths of a revolution per day   (15.5  -> 155)         *)
(*   ECCENTRICITY  hundredths                       (0.12  -> 12)          *)
(*   APOGEE, PERIGEE, altitude   kilometres                                *)
(*   velocity      hundredths                       (1.55  -> 155)         *)
(***************************************************************************)
EXTENDS Integers, Sequences, FiniteSets, TLC

VARIABLES
    authenticated,   \* SpaceTrackAPI.authenticated of the module-level space_track
    pc,              \* per request: where the request is in get_debris
    sawAuth,         \* per request: value of self.authenticated read at line 45
    loginResp,       \* per request: response of the login POST of this call
    authRet,         \* per request: return value of authenticate() in this call
    logins,          \* per request: login POSTs issued by this call
    queries,         \* per request: query GETs issued by this call
    raw,             \* per request: raw_data, the return value of get_debris_data
    resp,            \* per request: what get_debris returned
    obj,             \* the record handed to the derivation functions
    risk,            \* result of calculate_risk_level(obj)
    orbit,           \* result of classify_orbit(obj)
    alt              \* outcome of calculate_altitude(obj)

sessionVars == <<authenticated, pc, sawAuth, loginResp, authRet, logins, queries, raw, resp>>
fnVars == <<obj, risk, orbit, alt>>
vars == <<authenticated, pc, sawAuth, loginResp, authRet, logins, queries, raw, resp,
          obj, risk, orbit, alt>>

(***************************************************************************)
(* Floats.  A float is finite on the integer grid of its field, or one of  *)
(* the classes                                                             *)
(*   "big"   a finite float so large (1e308) that twice it, or the sum of  *)
(*           two of them, overflows to infinity,                           *)
(*   "inf"   +infinity,   "ninf"  -infinity,   "nan"  not-a-number.        *)
(***************************************************************************)
Fin(x) == [c |-> "fin", n |-> x]
FloatClass(cls) == [c |-> cls, n |-> 0]

\* f > k for a float f and a finite threshold k of the source.
GT(f, k) ==
    CASE f.c = "fin" -> f.n > k
      [] f.c \in {"big", "inf"} -> TRUE
      [] OTHER -> FALSE

(***************************************************************************)
(* JSON values of a raw record.  A key of the dict holds a number, a       *)
(* string that float() parses ("15.5", "inf"), any other string, null, or  *)
(* an integer literal too large for a float; or the key is absent.         *)
(***************************************************************************)
Absent == [k |-> "absent", c |-> "fin", n |-> 0, s |-> ""]
Null == [k |-> "null", c |-> "fin", n |-> 0, s |-> ""]
Num(x) == [k |-> "num", c |-> "fin", n |-> x, s |-> ""]
NumStr(x) == [k |-> "numstr", c |-> "fin", n |-> x, s |-> ""]
\* A JSON number (1e308, 1e999, -1e999, NaN) or a string ("1e308", "inf", "-inf",
\* "nan") whose float is of the class cls.
NumOf(cls) == [k |-> "num", c |-> cls, n |-> 0, s |-> ""]
NumStrOf(cls) == [k |-> "numstr", c |-> cls, n |-> 0, s |-> ""]
Str(t) == [k |-> "str", c |-> "fin", n |-> 0, s |-> t]
BigInt == [k |-> "bigint", c |-> "fin", n |-> 0, s |-> ""]

Keys == {"NORAD_CAT_ID", "OBJECT_NAME", "COUNTRY_CODE", "MEAN_MOTION", "ECCENTRICITY",
         "APOGEE", "PERIGEE", "RCS_SIZE", "LAUNCH_DATE", "EPOCH"}

\* dict.get(key, default): the default only when the key is absent (a null stays null).
Get(o, key, default) == IF o[key].k = "absent" THEN default ELSE o[key]

\* The exception float(v) raises, "" when it raises none: ValueError on a
\* string that is no number, TypeError on None, OverflowError on an int too
\* large for a float.
FloatError(v) ==
    CASE v.k = "str" -> "ValueError"
      [] v.k = "null" -> "TypeError"
      [] v.k = "bigint" -> "OverflowError"
      [] OTHER -> ""
FloatRaises(v) == FloatError(v) # ""
Float(v) == [c |-> v.c, n |-> v.n]

\* round(x) of Python 3 for x = twice / 2: ties go to the even integer.
RoundHalf(twice) ==
    LET q == twice \div 2
    IN  IF twice % 2 = 0 THEN q
        ELSE IF q % 2 = 0 THEN q ELSE q + 1

\* Thresholds of the source, in the units above.
RiskHighMeanMotion == 150
RiskHighEccentricity == 10
RiskMediumMeanMotion == 120
LeoMeanMotion == 110
MeoMeanMotion == 10

\* calculate_risk_level with the mean-motion test of HIGH written >= instead of >.
calculate_risk_level_ge(o) ==
    LET mm == Get(o, "MEAN_MOTION", Num(0))
        ecc == Get(o, "ECCENTRICITY", Num(0))
    IN  IF FloatRaises(mm) \/ FloatRaises(ecc) THEN "LOW"
        ELSE IF (GT(Float(mm), RiskHighMeanMotion) \/ Float(mm) = Fin(RiskHighMeanMotion))
                    /\ GT(Float(ecc), RiskHighEccentricity)
                 THEN "HIGH"
        ELSE IF GT(Float(mm), RiskMediumMeanMotion) THEN "MEDIUM"
        ELSE "LOW"

\* The bare except of line 125 catches every exception of the two float() calls.
calculate_risk_level(o) ==
    LET mm == Get(o, "MEAN_MOTION", Num(0))
        ecc == Get(o, "ECCENTRICITY", Num(0))
    IN  IF FloatRaises(mm) \/ FloatRaises(ecc) THEN "LOW"
        ELSE IF GT(Float(mm), RiskHighMeanMotion) /\ GT(Float(ecc), RiskHighEccentricity)
                 THEN "HIGH"
        ELSE IF GT(Float(mm), RiskMediumMeanMotion) THEN "MEDIUM"
        ELSE "LOW"

\* classify_orbit with the LEO test written >= instead of >.
classify_orbit_ge(o) ==
    LET mm == Get(o, "MEAN_MOTION", Num(0))
    IN  IF FloatRaises(mm) THEN "LEO"
        ELSE IF GT(Float(mm), LeoMeanMotion) \/ Float(mm) = Fin(LeoMeanMotion) THEN "LEO"
        ELSE IF GT(Float(mm), MeoMeanMotion) THEN "MEO"
        ELSE "GEO"

\* The bare except of line 139 catches every exception of float().
classify_orbit(o) ==
    LET mm == Get(o, "MEAN_MOTION", Num(0))
    IN  IF FloatRaises(mm) THEN "LEO"
        ELSE IF GT(Float(mm), LeoMeanMotion) THEN "LEO"
        ELSE IF GT(Float(mm), MeoMeanMotion) THEN "MEO"
        ELSE "GEO"

(***************************************************************************)
(* round(max((mu / n^2) ** (1/3) - 6371, 0)) with mu = 398600.4418 and     *)
(* n = mean_motion * 2 * 3.14159 / 86400, tabulated from the source for    *)
(* mean_motion = 0.1, 0.2, ..., 20.0 (entry m is mean motion m tenths).    *)
(***************************************************************************)
KeplerTable == <<
    189695, 117143, 87888, 71438, 60683, 53008, 47209, 42645, 38944, 35870,
    33270, 31036, 29092, 27382, 25865, 24507, 23284, 22176, 21165, 20239,
    19388, 18601, 17872, 17194, 16561, 15969, 15414, 14892, 14401, 13936,
    13497, 13081, 12686, 12311, 11953, 11612, 11287, 10976, 10678, 10392,
    10119, 9856, 9603, 9360, 9126, 8901, 8684, 8474, 8271, 8075,
    7886, 7702, 7525, 7353, 7186, 7024, 6867, 6714, 6566, 6422,
    6282, 6145, 6012, 5883, 5757, 5634, 5515, 5398, 5284, 5172,
    5064, 4958, 4854, 4753, 4654, 4557, 4462, 4369, 4278, 4189,
    4102, 4017, 3933, 3851, 3771, 3692, 3615, 3539, 3465, 3392,
    3320, 3250, 3181, 3113, 3046, 2981, 2916, 2853, 2791, 2730,
    2669, 2610, 2552, 2495, 2438, 2383, 2328, 2274, 2221, 2169,
    2118, 2067, 2017, 1968, 1920, 1872, 1825, 1779, 1733, 1688,
    1644, 1600, 1556, 1514, 1472, 1430, 1389, 1349, 1309, 1269,
    1230, 1192, 1154, 1116, 1079, 1043, 1007, 971, 936, 901,
    867, 832, 799, 766, 733, 700, 668, 636, 605, 574,
    543, 513, 483, 453, 424, 395, 366, 338, 309, 282,
    254, 227, 200, 173, 146, 120, 94, 69, 43, 18,
    0, 0, 0, 0, 0, 0, 0, 0, 0, 0,
    0, 0, 0, 0, 0, 0, 0, 0, 0, 0,
    0, 0, 0, 0, 0, 0, 0, 0, 0, 0 >>

\* The mean-motion branch, for a mean motion > 0.  The altitude falls with the
\* mean motion and is clamped to 0 from 17.1 on; for a big or infinite mean
\* motion n * n is infinite, mu / (n * n) is 0.0 and the clamp gives 0.
KeplerAltitude(f) ==
    IF f.c # "fin" THEN 0
    ELSE IF f.n > Len(KeplerTable) THEN 0
    ELSE KeplerTable[f.n]

\* What a call gives: a returned value, or an exception that leaves the function.
Returns(x) == [exc |-> FALSE, v |-> x]
RaisesOverflow == [exc |-> TRUE, v |-> [c |-> "fin", n |-> 0]]
\* Altitudes: an integer of kilometres, or the integer round(big / 2).
Km(x) == [c |-> "fin", n |-> x]
HalfBigKm == [c |-> "halfbig", n |-> 0]

\* round((apogee + perigee) / 2) for apogee > 0 and perigee > 0: round() of an
\* infinite float raises OverflowError.
RoundAverage(a, p) ==
    IF a.c = "inf" \/ p.c = "inf" \/ (a.c = "big" /\ p.c = "big") THEN RaisesOverflow
    ELSE IF a.c = "big" \/ p.c = "big" THEN Returns(HalfBigKm)
    ELSE Returns(Km(RoundHalf(a.n + p.n)))

\* The three float() calls of lines 145-147 run in order; line 162 catches
\* ValueError, TypeError and ZeroDivisionError and returns 0, and catches no
\* OverflowError.
calculate_altitude(o) ==
    LET apogee == Get(o, "APOGEE", Num(0))
        perigee == Get(o, "PERIGEE", Num(0))
        mean_motion == Get(o, "MEAN_MOTION", Num(0))
        first == IF FloatRaises(apogee) THEN FloatError(apogee)
                 ELSE IF FloatRaises(perigee) THEN FloatError(perigee)
                 ELSE FloatError(mean_motion)
    IN  IF first = "OverflowError" THEN RaisesOverflow
        ELSE IF first # "" THEN Returns(Km(0))
        ELSE IF GT(Float(apogee), 0) /\ GT(Float(perigee), 0)
                 THEN RoundAverage(Float(apogee), Float(perigee))
        ELSE IF GT(Float(mean_motion), 0) THEN Returns(Km(KeplerAltitude(Float(mean_motion))))
        ELSE Returns(Km(0))

(***************************************************************************)
(* Raw records used by the runs.                                           *)
(***************************************************************************)
MkRecord(id, name, mm, ecc, ap, pe) ==
    [key \in Keys |->
        CASE key = "NORAD_CAT_ID" -> id
          [] key = "OBJECT_NAME" -> name
          [] key = "MEAN_MOTION" -> mm
          [] key = "ECCENTRICITY" -> ecc
          [] key = "APOGEE" -> ap
          [] key = "PERIGEE" -> pe
          [] OTHER -> Absent]

\* Longest batch handed to the enrichment loop on its own.
MaxLen == 3
\* Longest query result drawn while two requests run.
MaxBody == 2

\* Records a query result is made of: the ISS-like record of the spec's
\* scenario, a record whose MEAN_MOTION is not a number, a record without
\* apogee and perigee whose altitude comes from its mean motion, and a record
\* whose APOGEE is 1e999 (infinity).
PipelineRecords ==
    { MkRecord(Num(25544), Str("ISS (ZARYA)"), NumStr(155), NumStr(12), NumStr(420), NumStr(410)),
      MkRecord(Num(3), Str("DEB A"), Str("n/a"), Num(5), Num(421), Num(410)),
      MkRecord(Num(4), Absent, Num(160), Num(5), Absent, Absent),
      MkRecord(Num(5), Str("DEB B"), NumStr(155), Absent, NumOf("inf"), Num(410)) }

ListsUpTo(n) == UNION { [1..len -> PipelineRecords] : len \in 0..n }
RecordLists == ListsUpTo(MaxBody)
BatchLists == ListsUpTo(MaxLen)

\* Records the derivation functions are applied to on their own.
MeanMotionValues ==
    { Absent, Null, Str("n/a"), BigInt, Num(-10), Num(0), Num(5), Num(10), Num(11),
      Num(110), Num(111), Num(120), Num(121), Num(150), Num(151), NumStr(155), Num(172),
      Num(250), NumOf("big"), NumOf("inf"), NumStrOf("ninf"), NumOf("nan") }
EccentricityValues ==
    { Absent, Str("n/a"), BigInt, Num(0), Num(10), Num(11), NumStr(12), NumOf("inf"),
      NumOf("nan") }
ApogeeValues ==
    { Absent, Str("n/a"), BigInt, Num(0), Num(-5), NumStr(420), Num(421), NumOf("big"),
      NumOf("inf"), NumStrOf("inf"), NumOf("ninf"), NumOf("nan") }
PerigeeValues ==
    { Absent, Null, BigInt, Num(0), Num(410), NumStr(412), NumOf("big"), NumOf("inf") }

FnRecords ==
    { MkRecord(Num(1), Absent, mm, ecc, ap, pe) :
        mm \in MeanMotionValues, ecc \in EccentricityValues,
        ap \in ApogeeValues, pe \in PerigeeValues }

(***************************************************************************)
(* Python values of the handler.                                           *)
(***************************************************************************)
PyNone == [isNone |-> TRUE, list |-> <<>>]
PyList(l) == [isNone |-> FALSE, list |-> l]

\* `not raw_data`: None and the empty list are both falsy.
Falsy(v) == v.isNone \/ Len(v.list) = 0

\* HTTP outcomes of session.post / session.get.
TransportError == [exc |-> TRUE, status |-> 0, json_ok |-> FALSE, body |-> <<>>]
Response(code) == [exc |-> FALSE, status |-> code, json_ok |-> FALSE, body |-> <<>>]
JsonResponse(code, l) == [exc |-> FALSE, status |-> code, json_ok |-> TRUE, body |-> l]

LoginOutcomes == { Response(200), Response(401), TransportError }
QueryOutcomes ==
    { JsonResponse(200, l) : l \in RecordLists }
        \cup { Response(200), Response(500), TransportError }

NoResponse == [exc |-> FALSE, status |-> 0, json_ok |-> FALSE, body |-> <<>>]

(***************************************************************************)
(* get_debris: construction of one processed_obj and the loop.             *)
(***************************************************************************)
\* A construction that raises only on the float() of the velocity entry.
BuildRaisesOnVelocityOnly(o) == FloatRaises(Get(o, "MEAN_MOTION", Num(0)))

\* The dict literal of lines 88-99 raises when calculate_altitude lets an
\* OverflowError out (line 92) or float(obj.get('MEAN_MOTION', 0)) of the
\* velocity entry raises (line 93); calculate_risk_level and classify_orbit
\* catch everything.
BuildRaises(o) ==
    calculate_altitude(o).exc \/ FloatRaises(Get(o, "MEAN_MOTION", Num(0)))

\* round(float(mean_motion) * 0.1, 2): a finite mean motion in tenths times 0.1
\* is the same count of hundredths; a tenth of a big float is finite; infinity
\* and nan stay what they are.
Velocity(o) ==
    LET f == Float(Get(o, "MEAN_MOTION", Num(0)))
    IN  CASE f.c = "fin" -> Fin(f.n)
          [] f.c = "big" -> FloatClass("tenthbig")
          [] OTHER -> f

BuildObject(o) ==
    [ id |-> Get(o, "NORAD_CAT_ID", Null),
      name |-> Get(o, "OBJECT_NAME", Str("Unknown Object")),
      country |-> Get(o, "COUNTRY_CODE", Str("Unknown")),
      altitude |-> calculate_altitude(o).v,
      velocity |-> Velocity(o),
      risk_level |-> calculate_risk_level(o),
      orbit_type |-> classify_orbit(o),
      size |-> Get(o, "RCS_SIZE", Str("Unknown")),
      launch_date |-> Get(o, "LAUNCH_DATE", Str("Unknown")),
      epoch |-> Get(o, "EPOCH", Null) ]

\* A loop body that puts the new object in front (insert(0, ...)) of the list.
LoopStepPrepend(processed, o) ==
    IF BuildRaises(o) THEN processed ELSE <<BuildObject(o)>> \o processed

\* One iteration of the loop: append the object, or skip the record.
LoopStep(processed, o) ==
    IF BuildRaises(o) THEN processed ELSE Append(processed, BuildObject(o))

RECURSIVE ProcessFrom(_, _, _)
ProcessFrom(raw_data, i, processed) ==
    IF i > Len(raw_data) THEN processed
    ELSE ProcessFrom(raw_data, i + 1, LoopStep(processed, raw_data[i]))

NoReply == [status |-> 0, kind |-> "none", total_count |-> 0, objects |-> <<>>]
\* {"error": "Failed to fetch real space data"}, 500: it has no objects list.
ErrorReply == [status |-> 500, kind |-> "error", total_count |-> 0, objects |-> <<>>]
OkReply(processed) ==
    [status |-> 200, kind |-> "ok", total_count |-> Len(processed), objects |-> processed]

\* The guard of line 81.
FetchFailed(raw_data) == Falsy(raw_data)

GetDebrisReply(raw_data) ==
    IF FetchFailed(raw_data) THEN ErrorReply
    ELSE OkReply(ProcessFrom(raw_data.list, 1, <<>>))

(***************************************************************************)
(* SpaceTrackAPI.                                                          *)
(***************************************************************************)
\* An authenticate() that takes any response received for a success.
AuthenticateResultAnyResponse(r) == ~r.exc

\* authenticate(): True exactly on a response with status 200.
AuthenticateResult(r) == ~r.exc /\ r.status = 200

\* An authenticate() that stores its result in the flag, clearing it on failure.
FlagSetToResult(flag, r) == ~r.exc /\ r.status = 200

\* authenticate() writes the flag only on success (line 33).
FlagAfterAuthenticate(flag, r) == IF AuthenticateResult(r) THEN TRUE ELSE flag

\* A get_debris_data that logs in on every call.
NeedsLoginAlways(flag) == TRUE

\* Line 45: authenticate() is called only when the flag reads false.
NeedsLogin(flag) == ~flag

\* A get_debris_data that goes on only when the flag it read was already true.
ProceedsToQueryFlagOnly(flag, ret) == flag

\* A get_debris_data that ignores the result of authenticate().
ProceedsToQueryAlways(flag, ret) == TRUE

\* Line 45-46: get_debris_data goes on to the query when the flag read true
\* or authenticate() returned True, and returns None otherwise.
ProceedsToQuery(flag, ret) == flag \/ ret

\* Lines 51-60: the parsed body on status 200, None on anything else.
QueryResult(r) ==
    IF ~r.exc /\ r.status = 200 /\ r.json_ok THEN PyList(r.body) ELSE PyNone

Requests == {"r1", "r2"}

NotCalled == [exc |-> FALSE, v |-> [c |-> "unset", n |-> 0]]

Init ==
    /\ authenticated = FALSE
    /\ pc = [t \in Requests |-> "idle"]
    /\ sawAuth = [t \in Requests |-> FALSE]
    /\ loginResp = [t \in Requests |-> NoResponse]
    /\ authRet = [t \in Requests |-> "none"]
    /\ logins = [t \in Requests |-> 0]
    /\ queries = [t \in Requests |-> 0]
    /\ raw = [t \in Requests |-> PyNone]
    /\ resp = [t \in Requests |-> NoReply]
    /\ obj = MkRecord(Absent, Absent, Absent, Absent, Absent, Absent)
    /\ risk = "unset"
    /\ orbit = "unset"
    /\ alt = NotCalled

\* The shape of the state.
TypeOK ==
    /\ authenticated \in BOOLEAN
    /\ pc \in [Requests -> {"idle", "login", "query", "respond", "done"}]
    /\ sawAuth \in [Requests -> BOOLEAN]
    /\ \A t \in Requests : loginResp[t] \in LoginOutcomes \cup {NoResponse}
    /\ authRet \in [Requests -> {"none", "True", "False"}]
    /\ logins \in [Requests -> 0..1]
    /\ queries \in [Requests -> 0..1]
    /\ \A t \in Requests : raw[t] = PyNone \/ (~raw[t].isNone /\ raw[t].list \in BatchLists)
    /\ \A t \in Requests : resp[t].kind \in {"none", "error", "ok"}
    /\ risk \in {"unset", "LOW", "MEDIUM", "HIGH"}
    /\ orbit \in {"unset", "LEO", "MEO", "GEO"}
    /\ alt.exc \in BOOLEAN /\ alt.v.c \in {"unset", "fin", "halfbig"}

\* A request enters get_debris, which calls get_debris_data; the flag is read.
BeginRequest(t) ==
    /\ pc[t] \in {"idle", "done"}
    /\ sawAuth' = [sawAuth EXCEPT ![t] = authenticated]
    /\ loginResp' = [loginResp EXCEPT ![t] = NoResponse]
    /\ authRet' = [authRet EXCEPT ![t] = "none"]
    /\ logins' = [logins EXCEPT ![t] = 0]
    /\ queries' = [queries EXCEPT ![t] = 0]
    /\ raw' = [raw EXCEPT ![t] = PyNone]
    /\ resp' = [resp EXCEPT ![t] = NoReply]
    /\ pc' = [pc EXCEPT ![t] = IF NeedsLogin(authenticated) THEN "login" ELSE "query"]
    /\ UNCHANGED <<authenticated, obj, risk, orbit, alt>>

\* authenticate() issues the login POST (line 31) and waits for the response.
SendLogin(t) ==
    /\ pc[t] = "login" /\ logins[t] = 0
    /\ logins' = [logins EXCEPT ![t] = @ + 1]
    /\ UNCHANGED <<authenticated, pc, sawAuth, loginResp, authRet, queries, raw, resp,
                   obj, risk, orbit, alt>>

\* The login response arrives: authenticate() writes the flag on a 200 and
\* returns, and get_debris_data goes on or returns None.
Authenticate(t) ==
    /\ pc[t] = "login" /\ logins[t] = 1
    /\ \E r \in LoginOutcomes :
        /\ loginResp' = [loginResp EXCEPT ![t] = r]
        /\ authRet' = [authRet EXCEPT ![t] = IF AuthenticateResult(r) THEN "True" ELSE "False"]
        /\ authenticated' = FlagAfterAuthenticate(authenticated, r)
        /\ pc' = [pc EXCEPT ![t] =
                    IF ProceedsToQuery(sawAuth[t], AuthenticateResult(r))
                        THEN "query" ELSE "respond"]
    /\ UNCHANGED <<sawAuth, logins, queries, raw, resp, obj, risk, orbit, alt>>

\* get_debris_data issues the query GET (line 52) and waits for the response.
SendQuery(t) ==
    /\ pc[t] = "query" /\ queries[t] = 0
    /\ queries' = [queries EXCEPT ![t] = @ + 1]
    /\ UNCHANGED <<authenticated, pc, sawAuth, loginResp, authRet, logins, raw, resp,
                   obj, risk, orbit, alt>>

\* The query response arrives: get_debris_data returns its value.
Query(t) ==
    /\ pc[t] = "query" /\ queries[t] = 1
    /\ \E r \in QueryOutcomes : raw' = [raw EXCEPT ![t] = QueryResult(r)]
    /\ pc' = [pc EXCEPT ![t] = "respond"]
    /\ UNCHANGED <<authenticated, sawAuth, loginResp, authRet, logins, queries, resp,
                   obj, risk, orbit, alt>>

\* The rest of get_debris: the guard, the loop and the reply.
Respond(t) ==
    /\ pc[t] = "respond"
    /\ resp' = [resp EXCEPT ![t] = GetDebrisReply(raw[t])]
    /\ pc' = [pc EXCEPT ![t] = "done"]
    /\ UNCHANGED <<authenticated, sawAuth, loginResp, authRet, logins, queries, raw,
                   obj, risk, orbit, alt>>

Next ==
    \E t \in Requests :
        \/ BeginRequest(t)
        \/ SendLogin(t)
        \/ Authenticate(t)
        \/ SendQuery(t)
        \/ Query(t)
        \/ Respond(t)

Spec == Init /\ [][Next]_vars

(***************************************************************************)
(* The handler on one batch: request r1 on the authenticated session, its  *)
(* query answered with a list of records.                                  *)
(***************************************************************************)
InitBatch ==
    /\ authenticated = TRUE
    /\ pc = [t \in Requests |-> IF t = "r1" THEN "respond" ELSE "idle"]
    /\ sawAuth = [t \in Requests |-> t = "r1"]
    /\ loginResp = [t \in Requests |-> NoResponse]
    /\ authRet = [t \in Requests |-> "none"]
    /\ logins = [t \in Requests |-> 0]
    /\ queries = [t \in Requests |-> IF t = "r1" THEN 1 ELSE 0]
    /\ \E l \in BatchLists : raw = [t \in Requests |-> IF t = "r1" THEN PyList(l) ELSE PyNone]
    /\ resp = [t \in Requests |-> NoReply]
    /\ obj = MkRecord(Absent, Absent, Absent, Absent, Absent, Absent)
    /\ risk = "unset"
    /\ orbit = "unset"
    /\ alt = NotCalled

NextBatch == Respond("r1")

SpecBatch == InitBatch /\ [][NextBatch]_vars

(***************************************************************************)
(* The derivation functions applied to one record on their own.            *)
(***************************************************************************)
InitFn ==
    /\ authenticated = FALSE
    /\ pc = [t \in Requests |-> "idle"]
    /\ sawAuth = [t \in Requests |-> FALSE]
    /\ loginResp = [t \in Requests |-> NoResponse]
    /\ authRet = [t \in Requests |-> "none"]
    /\ logins = [t \in Requests |-> 0]
    /\ queries = [t \in Requests |-> 0]
    /\ raw = [t \in Requests |-> PyNone]
    /\ resp = [t \in Requests |-> NoReply]
    /\ obj \in FnRecords
    /\ risk = "unset"
    /\ orbit = "unset"
    /\ alt = NotCalled

CallRiskLevel ==
    /\ risk' = calculate_risk_level(obj)
    /\ UNCHANGED <<sessionVars, obj, orbit, alt>>

CallClassifyOrbit ==
    /\ orbit' = classify_orbit(obj)
    /\ UNCHANGED <<sessionVars, obj, risk, alt>>

\* calculate_altitude returns, or an OverflowError leaves it.
CallAltitude ==
    /\ alt' = calculate_altitude(obj)
    /\ UNCHANGED <<sessionVars, obj, risk, orbit>>

NextFn == CallRiskLevel \/ CallClassifyOrbit \/ CallAltitude

SpecFn == InitFn /\ [][NextFn]_vars

(***************************************************************************)
(* Properties.                                                             *)
(***************************************************************************)
Is200(r) == ~r.exc /\ r.status = 200
Returned(t) == pc[t] \in {"respond", "done"}

\* C1: a get_debris_data call that read authenticated = false issues exactly
\* one login request, issues it before any query request, and when the login
\* is not a 200 (another status or a transport exception) returns None with no
\* query request and no second login.
C1_OneLoginBeforeQuery ==
    \A t \in Requests :
        (pc[t] # "idle" /\ ~sawAuth[t]) =>
            /\ logins[t] <= 1
            /\ (pc[t] = "login" => queries[t] = 0 /\ authRet[t] = "none")
            /\ (pc[t] # "login" => logins[t] = 1)
            /\ (queries[t] > 0 => logins[t] = 1 /\ Is200(loginResp[t]))
            /\ (pc[t] # "login" /\ ~Is200(loginResp[t]) =>
                    queries[t] = 0 /\ Returned(t) /\ raw[t].isNone)

\* A call that read the flag false, got a 401 at its one login and returned
\* the error reply without a query.
C1_Witness ==
    \E t \in Requests :
        /\ pc[t] = "done" /\ ~sawAuth[t]
        /\ logins[t] = 1 /\ loginResp[t].status = 401
        /\ queries[t] = 0 /\ resp[t].kind = "error"

\* The step in which request t's authenticate() returns.
AuthenticateReturns(t) == pc[t] = "login" /\ pc'[t] # "login"

\* C2 as stated: authenticate() returns True exactly on a 200 login response
\* and the flag is then true; whenever it returns False the flag is false right
\* after, whatever it was before the call.
C2_Original ==
    [][\A t \in Requests :
          AuthenticateReturns(t) =>
              /\ (authRet'[t] = "True") = Is200(loginResp'[t])
              /\ authRet'[t] \in {"True", "False"}
              /\ (authRet'[t] = "True" => authenticated')
              /\ (authRet'[t] = "False" => ~authenticated')]_vars

\* C2 amended: authenticate() returns True exactly on a 200 login response and
\* the flag is then true; when it returns False it leaves the flag as it was
\* when authenticate() was called (false, unless another request's login
\* succeeded in between).
C2_FailureLeavesFlag ==
    [][\A t \in Requests :
          AuthenticateReturns(t) =>
              /\ (authRet'[t] = "True") = Is200(loginResp'[t])
              /\ authRet'[t] \in {"True", "False"}
              /\ (authRet'[t] = "True" => authenticated')
              /\ (authRet'[t] = "False" => authenticated' = authenticated)]_vars

\* One request's authenticate() has just returned False on a transport error
\* while the other's has returned True.
C2_Witness ==
    \E t, u \in Requests :
        /\ pc[t] = "respond" /\ authRet[t] = "False" /\ loginResp[t].exc
        /\ authRet[u] = "True" /\ Is200(loginResp[u])

\* C3: once a login has succeeded the flag stays true, and a request that is
\* not already at its login (one that reads the flag from then on) never
\* reaches a login and issues no login request, whatever its query returns.
C3_AuthenticationCached ==
    [][authenticated =>
          /\ authenticated'
          /\ \A t \in Requests :
                pc[t] # "login" => (pc'[t] # "login" /\ logins'[t] <= logins[t])]_vars

\* A call made on the cached session whose query failed, and the flag is still true.
C3_Witness ==
    \E t \in Requests :
        /\ pc[t] = "done" /\ sawAuth[t] /\ logins[t] = 0
        /\ queries[t] = 1 /\ raw[t].isNone /\ authenticated

\* C4 as stated: get_debris returns the error payload with status 500 exactly
\* when the upstream fetch failed (get_debris_data returned None), and for
\* every list the fetch returns, the empty one included, the success envelope
\* whose total_count is the number of objects.
C4_ErrorIffFetchFailed ==
    \A t \in Requests :
        pc[t] = "done" =>
            /\ (resp[t].kind = "error" /\ resp[t].status = 500) = raw[t].isNone
            /\ (~raw[t].isNone =>
                    /\ resp[t].kind = "ok"
                    /\ resp[t].total_count = Len(resp[t].objects))

\* float() of the value gives a float; an absent key reads as its default 0.
Converts(v) == v.k \in {"num", "numstr", "absent"}
\* The value is a float above 0.
Positive(v) == v.k \in {"num", "numstr"} /\ (v.c \in {"big", "inf"} \/ (v.c = "fin" /\ v.n > 0))
\* Every numeric field of the record is a finite number or absent.
WellFormed(o) ==
    \A key \in {"MEAN_MOTION", "ECCENTRICITY", "APOGEE", "PERIGEE"} :
        Converts(o[key]) /\ o[key].c = "fin"
\* The construction of the record's object raises: its MEAN_MOTION does not
\* convert, an APOGEE or PERIGEE reached by float() is an integer too large
\* for a float, or apogee and perigee are positive and their average is infinite.
Malformed(o) ==
    \/ ~Converts(o["MEAN_MOTION"])
    \/ o["APOGEE"].k = "bigint"
    \/ (Converts(o["APOGEE"]) /\ o["PERIGEE"].k = "bigint")
    \/ /\ Positive(o["APOGEE"]) /\ Positive(o["PERIGEE"])
       /\ \/ o["APOGEE"].c = "inf"
          \/ o["PERIGEE"].c = "inf"
          \/ (o["APOGEE"].c = "big" /\ o["PERIGEE"].c = "big")

OneMalformed(l) ==
    \E i \in 1..Len(l) :
        /\ Malformed(l[i])
        /\ \A j \in 1..Len(l) : j # i => WellFormed(l[j])

\* C5: a batch of one malformed record (one whose construction raises, as a
\* non-numeric MEAN_MOTION makes it), at any position, and N >= 0 well-formed
\* records yields the success envelope with exactly N objects.
C5_OneMalformedDropped ==
    \A t \in Requests :
        (pc[t] = "done" /\ ~raw[t].isNone /\ OneMalformed(raw[t].list)) =>
            /\ resp[t].kind = "ok"
            /\ Len(resp[t].objects) = Len(raw[t].list) - 1
            /\ resp[t].total_count = Len(raw[t].list) - 1

\* A batch of three with the malformed record in the middle gave two objects.
C5_Witness ==
    \E t \in Requests :
        /\ pc[t] = "done" /\ ~raw[t].isNone /\ Len(raw[t].list) = 3
        /\ raw[t].list[2]["MEAN_MOTION"].k = "str"
        /\ WellFormed(raw[t].list[1]) /\ WellFormed(raw[t].list[3])
        /\ resp[t].total_count = 2

\* objs is the list of the objects of the records of l that construct, in the
\* order of l: a strictly increasing map of the objects onto those records.
EnrichedSubsequence(l, objs) ==
    LET kept == {i \in 1..Len(l) : ~Malformed(l[i])}
    IN  /\ Len(objs) = Cardinality(kept)
        /\ \E f \in [1..Len(objs) -> 1..Len(l)] :
              /\ \A i, j \in 1..Len(objs) : i < j => f[i] < f[j]
              /\ \A i \in 1..Len(objs) :
                    f[i] \in kept /\ objs[i] = BuildObject(l[f[i]])

\* C6: the objects of a reply are the order-preserving subsequence of the
\* input made of exactly the records whose construction did not raise: one
\* object per such record, none for a record that raised.
C6_OrderPreservingSubsequence ==
    \A t \in Requests :
        (pc[t] = "done" /\ resp[t].kind = "ok") =>
            EnrichedSubsequence(raw[t].list, resp[t].objects)

\* A batch of three distinct records, the second of which raised on its
\* infinite apogee, gave the objects of the first and the third in that order.
C6_Witness ==
    \E t \in Requests :
        /\ pc[t] = "done" /\ resp[t].kind = "ok" /\ Len(raw[t].list) = 3
        /\ raw[t].list[2]["APOGEE"].c = "inf"
        /\ Len(resp[t].objects) = 2
        /\ resp[t].objects[1].id = Num(4) /\ resp[t].objects[2].id = Num(25544)

\* C10: with the flag read and written without a lock the flag only moves
\* from false to true, and a request whose login got a 200 goes on to the
\* query: it never returns from get_debris_data without having issued it.
C10_RaceKeepsFlagAndQueries ==
    [][/\ authenticated => authenticated'
       /\ \A t \in Requests :
            /\ (AuthenticateReturns(t) /\ Is200(loginResp'[t])) => pc'[t] = "query"
            /\ (Returned(t)' /\ Is200(loginResp'[t])) => queries'[t] = 1]_vars

\* Both requests read the flag false, each issued its own login and got a
\* 200, and each issued its query.
C10_Witness ==
    \A t \in Requests :
        /\ ~sawAuth[t] /\ logins[t] = 1 /\ Is200(loginResp[t])
        /\ queries[t] = 1

(***************************************************************************)
(* Properties of the derivation functions, under SpecFn.                   *)
(***************************************************************************)
MM == Get(obj, "MEAN_MOTION", Num(0))
ECC == Get(obj, "ECCENTRICITY", Num(0))
AP == Get(obj, "APOGEE", Num(0))
PE == Get(obj, "PERIGEE", Num(0))
\* The float of v is greater than the finite number x (false for NaN).
Above(v, x) == v.c \in {"big", "inf"} \/ (v.c = "fin" /\ v.n > x)
Exactly(v, x) == v.c = "fin" /\ v.n = x

\* C7 as stated: HIGH iff meanMotion > 15 and eccentricity > 0.1, otherwise
\* MEDIUM if meanMotion > 12, otherwise LOW; a record with meanMotion exactly
\* 15 is MEDIUM and a record with eccentricity exactly 0.1 is LOW.
C7_Original ==
    (risk # "unset" /\ Converts(MM) /\ Converts(ECC)) =>
        LET high == Above(MM, 150) /\ Above(ECC, 10)
        IN  /\ (risk = "HIGH") = high
            /\ (risk = "MEDIUM") = (~high /\ Above(MM, 120))
            /\ (risk = "LOW") = (~high /\ ~Above(MM, 120))
            /\ (Exactly(MM, 150) => risk = "MEDIUM")
            /\ (Exactly(ECC, 10) => risk = "LOW")

\* C7 amended: for mean motion and eccentricity that convert (absent reads as
\* 0), HIGH iff meanMotion > 15 and eccentricity > 0.1, otherwise MEDIUM if
\* meanMotion > 12, otherwise LOW; meanMotion exactly 15 is MEDIUM, and
\* eccentricity exactly 0.1 is never HIGH: MEDIUM when meanMotion > 12, LOW
\* otherwise.  When either field fails to convert the result is LOW.
C7_RiskLevel ==
    risk # "unset" =>
        IF Converts(MM) /\ Converts(ECC)
        THEN LET high == Above(MM, 150) /\ Above(ECC, 10)
             IN  /\ (risk = "HIGH") = high
                 /\ (risk = "MEDIUM") = (~high /\ Above(MM, 120))
                 /\ (risk = "LOW") = (~high /\ ~Above(MM, 120))
                 /\ (Exactly(MM, 150) => risk = "MEDIUM")
                 /\ (Exactly(ECC, 10) =>
                        risk = IF Above(MM, 120) THEN "MEDIUM" ELSE "LOW")
        ELSE risk = "LOW"

\* Mean motion exactly 15 with an eccentricity above 0.1 classified MEDIUM.
C7_Witness ==
    /\ risk = "MEDIUM" /\ Converts(MM) /\ Converts(ECC)
    /\ Exactly(MM, 150) /\ Above(ECC, 10)

\* C8 as stated: LEO iff mean motion > 11; MEO when 1 < mean motion <= 11; GEO in
\* every other case: mean motion <= 1, missing, negative or non-numeric.
C8_Original ==
    orbit # "unset" =>
        /\ (orbit = "LEO") = (Converts(MM) /\ Above(MM, 110))
        /\ (orbit = "MEO") = (Converts(MM) /\ Above(MM, 10) /\ ~Above(MM, 110))
        /\ (orbit = "GEO") = (~Converts(MM) \/ ~Above(MM, 10))

\* C8 amended: LEO iff mean motion > 11 or mean motion does not convert to a
\* float (non-numeric, null, or an integer too large); MEO when
\* 1 < mean motion <= 11; GEO in every other case in which it converts: mean
\* motion at most 1, including 0 (or missing) and negative, or NaN.
C8_OrbitType ==
    orbit # "unset" =>
        /\ (orbit = "LEO") = (~Converts(MM) \/ Above(MM, 110))
        /\ (orbit = "MEO") = (Converts(MM) /\ Above(MM, 10) /\ ~Above(MM, 110))
        /\ (orbit = "GEO") = (Converts(MM) /\ ~Above(MM, 10))

\* Mean motion exactly 11 classified MEO.
C8_Witness == orbit = "MEO" /\ Converts(MM) /\ Exactly(MM, 110)

\* C9 as stated: with positive apogee and perigee calculate_altitude returns
\* round((apogee + perigee) / 2), whatever the mean motion is (present,
\* missing, zero, negative or non-numeric).
C9_AverageWhateverMeanMotion ==
    (alt # NotCalled /\ Positive(AP) /\ Positive(PE)) =>
        /\ ~alt.exc
        /\ (AP.c = "fin" /\ PE.c = "fin") =>
                (alt.v.c = "fin" /\ 2 * alt.v.n - (AP.n + PE.n) \in {-1, 0, 1})
        /\ (AP.c = "big" /\ PE.c = "fin") \/ (AP.c = "fin" /\ PE.c = "big") =>
                alt.v.c = "halfbig"
====
